---- MODULE Spec2Model ----
(***************************************************************************)
(* Spile: the orchestrator that boots and stops the three protocol         *)
(* listeners (bootstrap/stop) and the protocol listener module (listen,    *)
(* close, acceptConnections, handleConnection).                            *)
(*                                                                         *)
(* Two specifications share the module:                                    *)
(*   Spec          the orchestrator with its three listeners seen through  *)
(*                 the promises of listen() and close();                   *)
(*   SpecListener  one protocol listener module with its sessions;         *)
(*   SpecSweep     close() of that module over a given content of its      *)
(*                 set of connections.                                     *)
(***************************************************************************)
EXTENDS Integers, Sequences, FiniteSets, TLC

\* ------------------------------------------------------------------ bounds

\* Connections one listener module may accept in a run.
MaxConns == 2
\* Headers a session may parse successfully in a run.
MaxHeaders == 1
\* The most listeners registered on the event bus at a time.
MaxRegs == 2
\* The most names in the registry of the Logger class.
MaxLoggers == 3

\* --------------------------------------------------------------- constants

\* const [rcon, proto, query] = [new RConServer(), new ProtoServer(), new QueryServer()]
Listeners == {"rcon", "proto", "query"}

\* The activations of stop(): the one bootstrap() awaits in its catch block and
\* the one of an outside caller of the exported function.
Acts == {"boot", "ext"}

VARIABLES
  \* ---- orchestrator
  isBooting,      \* let isBooting = true
  bpc,            \* position of bootstrap(): idle, awaitListen, returned, awaitStop
  listenP,        \* per listener, the promise of its listen(): none, pending, ok, fail
  acceptLoop,     \* per listener, its accept loop: none, running, ended, rejected
  spc,            \* per activation, position of stop(): idle, awaitClose, exited
  closeP,         \* per activation and listener, the promise of close()
  sink,           \* Logger.stdout: open, destroyed
  flushed,        \* outcome of log.destroySyncUnsafe(): none, ok, fail
  logged,         \* messages handed to the primary logger
  rawErr,         \* console.error was written by stop()'s catch block
  exited,         \* the process has terminated
  exitCode,       \* its exit code, once exited
  exitBy,         \* none, boot, ext (the stop() activation), runtime (unhandled rejection)
  acceptErrRunning \* listeners whose accept loop raised after Running was reached

ovars == <<isBooting, bpc, listenP, acceptLoop, spc, closeP, sink, flushed,
           logged, rawErr, exited, exitCode, exitBy, acceptErrRunning>>

  \* ---- protocol listener module
VARIABLES
  open,           \* let open = false
  lsn,            \* the object in `listener`: undefined, listening, closed
  loop,           \* acceptConnections() on it: none, running, ended, rejected
  connections,    \* const connections = new Set<Conn>(), in insertion order
  sock,           \* per connection, its socket: none, open, closed
  pc,             \* per connection, handleConnection(): none, check, parsing, exited, failed
  closed,         \* per connection, client.closed
  headerData,     \* per connection, the last result of parseHeaders: unset, header, null
  parsed,         \* per connection, headers parsed successfully
  handled,        \* per connection, invocations of the protocol handler
  closeRes,       \* how the last close() ended: none, ok, threw
  closeErr,       \* what it threw: none, listener (BadResource), conn
  sweepLog,       \* what the last close() met per connection swept
  crashed,        \* an unhandled rejection ended the process: none, accept, session
  stale           \* the sessions that were in their loop when a close() returned

lvars == <<open, lsn, loop, connections, sock, pc, closed, headerData,
           parsed, handled, closeRes, closeErr, sweepLog, crashed, stale>>

\* The event bus (EventBus): its static map of listeners, and one send() at a
\* time observed from its call to the settling of its promise.
VARIABLES
  ebListeners,    \* EventBus.listeners: event id -> array of listener functions
  sendId,         \* the id of the send() observed, or none
  inv,            \* the listeners that send() invoked, in order: fn, kind, st
  sendP,          \* the promise of that send(): none, pending, resolved, rejected
  removed         \* the pairs <<id, fn>> given to off() and not to on() since

bvars == <<ebListeners, sendId, inv, sendP, removed>>

\* The Logger class: its static registry of names, and the last construction.
VARIABLES
  colour,           \* whether chalk emits colour codes in this process
  registeredNames,  \* Logger.registeredNames
  lastRes,          \* how the last construction ended: none, ok, TypeError
  lastName,         \* this.name of the logger it built
  lastDup,          \* whether the name it was given was registered already
  warned            \* whether it emitted the warning

gvars == <<colour, registeredNames, lastRes, lastName, lastDup, warned>>

\* The long field codec applied to one value and to one consumer.
VARIABLES
  val,            \* the bigint given to validate and encode
  wire,           \* the bytes the consumer given to decode is loaded with
  valid,          \* what validate returned: unset, true, false
  encRes,         \* how encode ended: unset, ok, TypeError
  encBytes,       \* the bytes encode returned
  decRes,         \* how decode ended: unset, ok
  decVal          \* the bigint decode returned

cvars == <<val, wire, valid, encRes, encBytes, decRes, decVal>>

uvars == <<bvars, gvars, cvars>>

vars == <<ovars, lvars, uvars>>

Conn == 1..MaxConns

\* ------------------------------------------------------------ orchestrator

\* Promise.all(ps) resolves once every promise has resolved ...
AnyResolved(p) == \E l \in Listeners : p[l] = "ok"

AllResolved(p) == \A l \in Listeners : p[l] = "ok"

\* ... and rejects as soon as one of them has rejected.
AnyRejected(p) == \E l \in Listeners : p[l] = "fail"

\* if (isBooting) in bootstrap()'s catch block: the failure is fatal at boot.
BootFatalInverted(booting) == ~booting

BootFatal(booting) == booting

\* process.exit() after a clean shutdown, process.exit(1) from stop()'s catch block.
StopExitCodeAlwaysZero(closesOk, flushOk) == 0

StopExitCodeAlwaysOne(closesOk, flushOk) == 1

StopExitCode(closesOk, flushOk) == IF closesOk /\ flushOk THEN 0 ELSE 1

\* close() started on one listener only before the await.
StopEnterOneByOne(a) ==
  /\ spc' = [spc EXCEPT ![a] = "awaitClose"]
  /\ closeP' = [closeP EXCEPT ![a] =
                  [l \in Listeners |-> IF l = "rcon" THEN "pending" ELSE "none"]]

\* The body of stop() up to its await: log.warn, then close() on all three
\* listeners, whose promises Promise.all awaits.
StopEnter(a) ==
  /\ spc' = [spc EXCEPT ![a] = "awaitClose"]
  /\ closeP' = [closeP EXCEPT ![a] = [l \in Listeners |-> "pending"]]

\* The listener module as loaded: no listener, nothing accepted.
ListenerFresh ==
  /\ open = FALSE
  /\ lsn = "undefined"
  /\ loop = "none"
  /\ headerData = [c \in Conn |-> "unset"]
  /\ parsed = [c \in Conn |-> 0]
  /\ handled = [c \in Conn |-> 0]
  /\ closed = [c \in Conn |-> FALSE]
  /\ closeRes = "none"
  /\ closeErr = "none"
  /\ sweepLog = <<>>
  /\ crashed = "none"
  /\ stale = {}

InitListener ==
  /\ ListenerFresh
  /\ connections = <<>>
  /\ sock = [c \in Conn |-> "none"]
  /\ pc = [c \in Conn |-> "none"]

InitOrchestrator ==
  /\ isBooting = TRUE
  /\ bpc = "idle"
  /\ listenP = [l \in Listeners |-> "none"]
  /\ acceptLoop = [l \in Listeners |-> "none"]
  /\ spc = [a \in Acts |-> "idle"]
  /\ closeP = [a \in Acts |-> [l \in Listeners |-> "none"]]
  /\ sink = "open"
  /\ flushed = "none"
  /\ logged = {}
  /\ rawErr = FALSE
  /\ exited = FALSE
  /\ exitCode = 0
  /\ exitBy = "none"
  /\ acceptErrRunning = {}

\* The event bus as loaded: an empty map, nothing sent.
InitBus ==
  /\ ebListeners = [k \in {} |-> <<>>]
  /\ sendId = "none"
  /\ inv = <<>>
  /\ sendP = "none"
  /\ removed = {}

\* The Logger class as loaded. Names are sequences of characters and colour
\* codes; the empty sequence stands for undefined.
LoggerFresh ==
  /\ registeredNames = <<>>
  /\ lastRes = "none"
  /\ lastName = <<>>
  /\ lastDup = FALSE
  /\ warned = FALSE

\* A bigint is a sign and a magnitude of LongBytes + 1 bytes, the most
\* significant first.
LongBytes == 8

ZeroMag == [i \in 1..(LongBytes + 1) |-> 0]

\* The codec before any call.
CodecFresh ==
  /\ valid = "unset"
  /\ encRes = "unset"
  /\ encBytes = <<>>
  /\ decRes = "unset"
  /\ decVal = [neg |-> FALSE, mag |-> ZeroMag]

InitUtils ==
  /\ InitBus
  /\ LoggerFresh /\ colour = FALSE
  /\ CodecFresh
  /\ val = [neg |-> FALSE, mag |-> ZeroMag]
  /\ wire = [i \in 1..LongBytes |-> 0]

Init == InitOrchestrator /\ InitListener /\ InitUtils

\* bootstrap() is called: listen() is started on all three listeners and the
\* function suspends on Promise.all.
bootstrap ==
  /\ UNCHANGED <<lvars, uvars>>
  /\ ~exited
  /\ bpc = "idle"
  /\ bpc' = "awaitListen"
  /\ listenP' = [l \in Listeners |-> "pending"]
  /\ UNCHANGED <<isBooting, acceptLoop, spc, closeP, sink, flushed, logged,
                 rawErr, exited, exitCode, exitBy, acceptErrRunning>>

\* A listener's listen() settles. On success its accept loop is running
\* (listen() calls acceptConnections() without awaiting it).
listenSettle(l, r) ==
  /\ UNCHANGED <<lvars, uvars>>
  /\ ~exited
  /\ listenP[l] = "pending"
  /\ listenP' = [listenP EXCEPT ![l] = r]
  /\ acceptLoop' = [acceptLoop EXCEPT ![l] = IF r = "ok" THEN "running" ELSE @]
  /\ UNCHANGED <<isBooting, bpc, spc, closeP, sink, flushed, logged, rawErr,
                 exited, exitCode, exitBy, acceptErrRunning>>

\* bootstrap() resumes after await Promise.all([...listen()]) resolved.
bootstrapReady ==
  /\ UNCHANGED <<lvars, uvars>>
  /\ ~exited
  /\ bpc = "awaitListen"
  /\ AllResolved(listenP)
  /\ isBooting' = FALSE
  /\ logged' = logged \cup {"ready"}
  /\ bpc' = "returned"
  /\ UNCHANGED <<listenP, acceptLoop, spc, closeP, sink, flushed, rawErr,
                 exited, exitCode, exitBy, acceptErrRunning>>

\* bootstrap() resumes in its catch block after Promise.all rejected.
bootstrapCatch ==
  /\ UNCHANGED <<lvars, uvars>>
  /\ ~exited
  /\ bpc = "awaitListen"
  /\ AnyRejected(listenP)
  /\ IF BootFatal(isBooting)
       THEN /\ logged' = logged \cup {"bootError", "willStop", "stopping"}
            /\ bpc' = "awaitStop"
            /\ StopEnter("boot")
       ELSE /\ logged' = logged \cup {"runtimeError"}
            /\ bpc' = "returned"
            /\ UNCHANGED <<spc, closeP>>
  /\ UNCHANGED <<isBooting, listenP, acceptLoop, sink, flushed, rawErr,
                 exited, exitCode, exitBy, acceptErrRunning>>

\* stop() is called from outside (it is exported).
stop ==
  /\ UNCHANGED <<lvars, uvars>>
  /\ ~exited
  /\ spc["ext"] = "idle"
  /\ logged' = logged \cup {"stopping"}
  /\ StopEnter("ext")
  /\ UNCHANGED <<isBooting, bpc, listenP, acceptLoop, sink, flushed, rawErr,
                 exited, exitCode, exitBy, acceptErrRunning>>

\* A listener's close() settles. A close() that succeeded has closed the
\* listener socket, which ends its accept loop.
closeSettle(a, l, r) ==
  /\ UNCHANGED <<lvars, uvars>>
  /\ ~exited
  /\ closeP[a][l] = "pending"
  /\ closeP' = [closeP EXCEPT ![a][l] = r]
  /\ acceptLoop' = [acceptLoop EXCEPT ![l] =
                      IF r = "ok" /\ @ = "running" THEN "ended" ELSE @]
  /\ UNCHANGED <<isBooting, bpc, listenP, spc, sink, flushed, logged, rawErr,
                 exited, exitCode, exitBy, acceptErrRunning>>

\* stop() resumes after all three close() resolved: log.info, then
\* log.destroySyncUnsafe() (flushSync may throw; destroy runs in its finally),
\* then process.exit(); a throw lands in the catch block, which exits with 1.
stopFinish(a) ==
  /\ UNCHANGED <<lvars, uvars>>
  /\ ~exited
  /\ spc[a] = "awaitClose"
  /\ AllResolved(closeP[a])
  /\ \E flushOk \in BOOLEAN :
       /\ flushed' = IF flushOk THEN "ok" ELSE "fail"
       /\ rawErr' = (rawErr \/ ~flushOk)
       /\ exitCode' = StopExitCode(TRUE, flushOk)
  /\ logged' = logged \cup {"thanks"}
  /\ sink' = "destroyed"
  /\ spc' = [spc EXCEPT ![a] = "exited"]
  /\ exited' = TRUE
  /\ exitBy' = a
  /\ UNCHANGED <<isBooting, bpc, listenP, acceptLoop, closeP, acceptErrRunning>>

\* stop() resumes in its catch block after Promise.all rejected: console.error
\* and process.exit(1), the logger left alone.
stopCatch(a) ==
  /\ UNCHANGED <<lvars, uvars>>
  /\ ~exited
  /\ spc[a] = "awaitClose"
  /\ AnyRejected(closeP[a])
  /\ rawErr' = TRUE
  /\ exitCode' = StopExitCode(FALSE, TRUE)
  /\ spc' = [spc EXCEPT ![a] = "exited"]
  /\ exited' = TRUE
  /\ exitBy' = a
  /\ UNCHANGED <<isBooting, bpc, listenP, acceptLoop, closeP, sink, flushed,
                 logged, acceptErrRunning>>

\* A listener's accept loop raises. acceptConnections() was called without
\* await or catch, so its promise rejects unhandled: nothing of the
\* orchestrator runs, and the runtime either ends the process with a
\* non-zero code or only warns.
acceptLoopError(l, kill) ==
  /\ UNCHANGED <<lvars, uvars>>
  /\ ~exited
  /\ acceptLoop[l] = "running"
  /\ acceptLoop' = [acceptLoop EXCEPT ![l] = "rejected"]
  /\ acceptErrRunning' = IF isBooting THEN acceptErrRunning
                         ELSE acceptErrRunning \cup {l}
  /\ exited' = kill
  /\ exitCode' = IF kill THEN 1 ELSE exitCode
  /\ exitBy' = IF kill THEN "runtime" ELSE exitBy
  /\ UNCHANGED <<isBooting, bpc, listenP, spc, closeP, sink, flushed, logged,
                 rawErr>>

Next ==
  \/ bootstrap
  \/ \E l \in Listeners, r \in {"ok", "fail"} : listenSettle(l, r)
  \/ bootstrapReady
  \/ bootstrapCatch
  \/ stop
  \/ \E a \in Acts, l \in Listeners, r \in {"ok", "fail"} : closeSettle(a, l, r)
  \/ \E a \in Acts : stopFinish(a)
  \/ \E a \in Acts : stopCatch(a)
  \/ \E l \in Listeners, kill \in BOOLEAN : acceptLoopError(l, kill)

Spec == Init /\ [][Next]_vars

\* ------------------------------------------------- protocol listener module

Range(q) == {q[i] : i \in DOMAIN q}

\* listener?.close(): closes the listener socket when a listener exists.
ListenerAfterCloseKept(l) == l

ListenerAfterClose(l) == IF l = "undefined" THEN "undefined" ELSE "closed"

\* if (!(err instanceof Deno.errors.BadResource)) throw err;
RethrownNever(kind) == FALSE

Rethrown(kind) == kind # "BadResource"

\* What conn.close() raises: BadResource on a socket that is closed already,
\* on an open one nothing, or some other socket error when it is faulty.
ConnCloseError(c, sk, faulty) ==
  IF sk[c] # "open" THEN "BadResource"
  ELSE IF c \in faulty THEN "other" ELSE "none"

\* A sweep that goes on over the rest of the set after an error and throws at
\* the end.
RECURSIVE SweepDeferred(_, _, _, _)
SweepDeferred(cs, sk, faulty, lg) ==
  IF cs = <<>>
    THEN [sock |-> sk, log |-> lg,
          res |-> IF \E i \in DOMAIN lg : lg[i][2] = "other" THEN "threw" ELSE "ok"]
    ELSE LET c == Head(cs)
             err == ConnCloseError(c, sk, faulty)
         IN IF err = "none"
              THEN SweepDeferred(Tail(cs), [sk EXCEPT ![c] = "closed"], faulty,
                                 Append(lg, <<c, "closed">>))
              ELSE SweepDeferred(Tail(cs), sk, faulty, Append(lg, <<c, err>>))

\* for (const conn of connections) { try { conn.close() } catch (err) { ... } }
\* over the connections cs in order: the sockets afterwards, what was met per
\* connection, and whether the loop threw.
RECURSIVE Sweep(_, _, _, _)
Sweep(cs, sk, faulty, lg) ==
  IF cs = <<>> THEN [sock |-> sk, log |-> lg, res |-> "ok"]
  ELSE LET c == Head(cs)
           err == ConnCloseError(c, sk, faulty)
       IN IF err = "none"
            THEN Sweep(Tail(cs), [sk EXCEPT ![c] = "closed"], faulty,
                       Append(lg, <<c, "closed">>))
            ELSE IF Rethrown(err)
              THEN [sock |-> sk, log |-> Append(lg, <<c, err>>), res |-> "threw"]
              ELSE Sweep(Tail(cs), sk, faulty, Append(lg, <<c, err>>))

\* while (open): the closed flag of the client left out.
LoopConditionOpenOnly(o, c) == o

\* while (open && !client.closed)
LoopCondition(o, c) == o /\ ~closed[c]

\* listen(opts): listenTcp binds or throws; then open = true and the accept
\* loop is started. It is called while no listener is listening (the address
\* of a listening listener is taken).
listen(bound) ==
  /\ UNCHANGED <<ovars, stale, uvars>>
  /\ crashed = "none"
  /\ lsn # "listening"
  /\ IF bound
       THEN /\ lsn' = "listening"
            /\ open' = TRUE
            /\ loop' = "running"
       ELSE UNCHANGED <<lsn, open, loop>>
  /\ UNCHANGED <<connections, sock, pc, closed, headerData, parsed, handled,
                 closeRes, closeErr, sweepLog, crashed>>

\* acceptConnections(): for await (const conn of listener) handleConnection(conn).
\* handleConnection runs to its first await: the Client is built and the loop
\* condition is about to be evaluated. Nothing is added to `connections`.
\* Connections are numbered in the order they arrive.
accept(c) ==
  /\ UNCHANGED <<ovars, stale, uvars>>
  /\ crashed = "none"
  /\ lsn = "listening" /\ loop = "running"
  /\ pc[c] = "none" /\ sock[c] = "none"
  /\ \A d \in Conn : d < c => sock[d] # "none"
  /\ sock' = [sock EXCEPT ![c] = "open"]
  /\ pc' = [pc EXCEPT ![c] = "check"]
  /\ UNCHANGED <<open, lsn, loop, connections, closed, headerData,
                 parsed, handled, closeRes, closeErr, sweepLog, crashed>>

\* The accept loop raises (an accept error other than the listener being
\* closed): the promise of acceptConnections() rejects unhandled.
acceptError(kill) ==
  /\ UNCHANGED <<ovars, stale, uvars>>
  /\ crashed = "none"
  /\ lsn = "listening" /\ loop = "running"
  /\ loop' = "rejected"
  /\ crashed' = IF kill THEN "accept" ELSE "none"
  /\ UNCHANGED <<open, lsn, connections, sock, pc, closed,
                 headerData, parsed, handled, closeRes, closeErr, sweepLog>>

\* The head of the while loop of handleConnection: a new iteration, whose
\* headerData is not yet set, or the exit.
sessionCheck(c) ==
  /\ UNCHANGED <<ovars, stale, uvars>>
  /\ crashed = "none"
  /\ pc[c] = "check"
  /\ pc' = [pc EXCEPT ![c] = IF LoopCondition(open, c) THEN "parsing" ELSE "exited"]
  /\ headerData' = [headerData EXCEPT ![c] =
                      IF LoopCondition(open, c) THEN "unset" ELSE @]
  /\ UNCHANGED <<open, lsn, loop, connections, sock, closed,
                 parsed, handled, closeRes, closeErr, sweepLog, crashed>>

\* parseHeaders resolved with a header: it is destructured and the loop goes
\* round. No handler is invoked.
sessionHeader(c) ==
  /\ UNCHANGED <<ovars, stale, uvars>>
  /\ crashed = "none"
  /\ pc[c] = "parsing"
  /\ parsed[c] < MaxHeaders
  /\ headerData' = [headerData EXCEPT ![c] = "header"]
  /\ parsed' = [parsed EXCEPT ![c] = @ + 1]
  /\ handled' = handled
  /\ pc' = [pc EXCEPT ![c] = "check"]
  /\ UNCHANGED <<open, lsn, loop, connections, sock, closed,
                 closeRes, closeErr, sweepLog, crashed>>

\* if (!headerData) continue: back to the loop condition.
ContinueTarget == "check"

\* parseHeaders resolved with no header.
sessionNoHeader(c) ==
  /\ UNCHANGED <<ovars, stale, uvars>>
  /\ crashed = "none"
  /\ pc[c] = "parsing"
  /\ headerData' = [headerData EXCEPT ![c] = "null"]
  /\ pc' = [pc EXCEPT ![c] = ContinueTarget]
  /\ UNCHANGED <<open, lsn, loop, connections, sock, closed,
                 parsed, handled, closeRes, closeErr, sweepLog, crashed>>

\* parseHeaders rejected (a frame error, the stream ended): handleConnection has
\* no try, so its promise, which acceptConnections() did not keep, rejects
\* unhandled.
sessionFrameError(c, kill) ==
  /\ UNCHANGED <<ovars, stale, uvars>>
  /\ crashed = "none"
  /\ pc[c] = "parsing"
  /\ pc' = [pc EXCEPT ![c] = "failed"]
  /\ crashed' = IF kill THEN "session" ELSE "none"
  /\ UNCHANGED <<open, lsn, loop, connections, sock, closed,
                 headerData, parsed, handled, closeRes, closeErr, sweepLog>>

\* The Client marks itself closed (the peer went away) and its socket is
\* released.
clientClosed(c) ==
  /\ UNCHANGED <<ovars, stale, uvars>>
  /\ crashed = "none"
  /\ pc[c] # "none"
  /\ ~closed[c]
  /\ closed' = [closed EXCEPT ![c] = TRUE]
  /\ sock' = [sock EXCEPT ![c] = "closed"]
  /\ UNCHANGED <<open, lsn, loop, connections, pc, headerData,
                 parsed, handled, closeRes, closeErr, sweepLog, crashed>>

\* close(): open = false, listener?.close(), then the sweep over `connections`.
\* Closing a listener that is closed already may raise BadResource (again),
\* which close() does not catch. faulty: the connections of the set whose
\* conn.close() raises a socket error other than BadResource.
closeBody(faulty, again) ==
  /\ UNCHANGED <<ovars, uvars>>
  /\ crashed = "none"
  /\ faulty \subseteq Range(connections)
  /\ again => lsn = "closed"
  /\ open' = FALSE
  /\ lsn' = ListenerAfterClose(lsn)
  /\ loop' = IF lsn = "listening" /\ lsn' = "closed" /\ loop = "running"
               THEN "ended" ELSE loop
  /\ IF lsn = "closed" /\ again
       THEN /\ closeRes' = "threw"
            /\ closeErr' = "listener"
            /\ sweepLog' = <<>>
            /\ sock' = sock
       ELSE LET s == Sweep(connections, sock, faulty, <<>>)
            IN /\ closeRes' = s.res
               /\ closeErr' = IF s.res = "threw" THEN "conn" ELSE "none"
               /\ sweepLog' = s.log
               /\ sock' = s.sock
  /\ UNCHANGED <<connections, pc, closed, headerData, parsed,
                 handled, crashed>>

close(faulty, again) ==
  /\ closeBody(faulty, again)
  /\ UNCHANGED stale

NextListener ==
  \/ \E bound \in BOOLEAN : listen(bound)
  \/ \E c \in Conn : accept(c)
  \/ \E kill \in BOOLEAN : acceptError(kill)
  \/ \E c \in Conn : sessionCheck(c)
  \/ \E c \in Conn : sessionHeader(c)
  \/ \E c \in Conn : sessionNoHeader(c)
  \/ \E c \in Conn, kill \in BOOLEAN : sessionFrameError(c, kill)
  \/ \E c \in Conn : clientClosed(c)
  \/ \E faulty \in SUBSET Conn, again \in BOOLEAN : close(faulty, again)

SpecListener == Init /\ [][NextListener]_vars

\* close() with a note taken, when it returns, of the sessions that are in
\* their loop at that moment.
closeNoting(faulty, again) ==
  /\ closeBody(faulty, again)
  /\ stale' = IF closeRes' = "ok"
                THEN stale \cup {c \in Conn : pc[c] \in {"check", "parsing"}}
                ELSE stale

NextReopen ==
  \/ \E bound \in BOOLEAN : listen(bound)
  \/ \E c \in Conn : accept(c)
  \/ \E kill \in BOOLEAN : acceptError(kill)
  \/ \E c \in Conn : sessionCheck(c)
  \/ \E c \in Conn : sessionHeader(c)
  \/ \E c \in Conn : sessionNoHeader(c)
  \/ \E c \in Conn, kill \in BOOLEAN : sessionFrameError(c, kill)
  \/ \E c \in Conn : clientClosed(c)
  \/ \E faulty \in SUBSET Conn, again \in BOOLEAN : closeNoting(faulty, again)

SpecReopen == Init /\ [][NextReopen]_vars

\* The sweep of close() as a function of the content of `connections`: the set
\* holds, in some order, connections with an open socket whose session is at the
\* head of its loop.
Orders == {q \in UNION {[1..n -> Conn] : n \in 0..MaxConns} :
             \A i, j \in DOMAIN q : i # j => q[i] # q[j]}

InitSweep ==
  /\ InitOrchestrator
  /\ InitUtils
  /\ ListenerFresh
  /\ connections \in Orders
  /\ sock = [c \in Conn |-> IF c \in Range(connections) THEN "open" ELSE "none"]
  /\ pc = [c \in Conn |-> IF c \in Range(connections) THEN "check" ELSE "none"]

NextSweep ==
  \/ \E bound \in BOOLEAN : listen(bound)
  \/ \E c \in Conn : clientClosed(c)
  \/ \E faulty \in SUBSET Conn, again \in BOOLEAN : close(faulty, again)

SpecSweep == InitSweep /\ [][NextSweep]_vars

\* --------------------------------------------------------------- event bus

\* Event ids (two of those the overloads of send/on/off admit) and listener
\* functions.
EvIds == {"ready", "close"}

Fns == {"f", "g"}

\* What a listener does when called: returns a plain value, returns a promise
\* (which settles later), or throws.
Kinds == {"value", "promise", "throw"}

\* EventBus.listeners.get(id) ?? []
GetOrEmpty(id) == IF id \in DOMAIN ebListeners THEN ebListeners[id] ELSE <<>>

\* EventBus.listeners.set(id, ls)
MapSet(id, ls) ==
  [k \in DOMAIN ebListeners \cup {id} |-> IF k = id THEN ls ELSE ebListeners[k]]

\* EventBus.listeners.delete(id)
MapDelete(id) == [k \in DOMAIN ebListeners \ {id} |-> ebListeners[k]]

\* Only the first listener of the entry found.
FoundListenersFirst(id) ==
  IF id \in DOMAIN ebListeners /\ ebListeners[id] # <<>>
    THEN <<ebListeners[id][1]>> ELSE <<>>

\* [...entries()].filter(([evId]) => evId === id).flatMap(([_, lsFn]) => lsFn):
\* the map holds at most one entry per id, so this is its array.
FoundListeners(id) ==
  IF id \in DOMAIN ebListeners THEN ebListeners[id] ELSE <<>>

\* (async () => { const res = listener(...args); if (isPromise) await res; })()
\* run up to its await: isPromise is the imported function, always truthy, so
\* res is awaited whatever it is. A listener that returned a value has
\* completed, one that returned a promise completes when it settles, and a
\* throw rejects the wrapper's promise.
Invoke(fn, kind) ==
  [fn |-> fn, kind |-> kind,
   st |-> CASE kind = "value" -> "done"
            [] kind = "promise" -> "pending"
            [] kind = "throw" -> "failed"]

\* An invocation of the listeners one after the other in which a throw is not
\* caught and ends the iteration.
RECURSIVE InvokeAllAbort(_, _)
InvokeAllAbort(fns, kinds) ==
  IF fns = <<>> THEN <<>>
  ELSE IF Head(kinds) = "throw" THEN <<Invoke(Head(fns), Head(kinds))>>
  ELSE <<Invoke(Head(fns), Head(kinds))>> \o InvokeAllAbort(Tail(fns), Tail(kinds))

\* .map(listener => (async () => {...})()): every listener is called, in
\* order, inside its own async wrapper.
InvokeAll(fns, kinds) == [i \in DOMAIN fns |-> Invoke(fns[i], kinds[i])]

\* listeners.filter(lsFn => lsFn !== listener): the array without fn.
Without(ls, fn) == SelectSeq(ls, LAMBDA x : x # fn)

\* off(), listener given: filter() returns a new array, which is dropped; the
\* array that is stored again is the one read from the map.
StoredAfterOff(ls, fn) == LET filtered == Without(ls, fn) IN ls

RECURSIVE Registered(_)
Registered(ids) ==
  IF ids = {} THEN 0
  ELSE LET k == CHOOSE x \in ids : TRUE
       IN Len(ebListeners[k]) + Registered(ids \ {k})

\* on(id, listener)
on(id, fn) ==
  /\ UNCHANGED <<ovars, lvars, gvars, cvars>>
  /\ Registered(DOMAIN ebListeners) < MaxRegs
  /\ ebListeners' = MapSet(id, Append(GetOrEmpty(id), fn))
  /\ removed' = removed \ {<<id, fn>>}
  /\ UNCHANGED <<sendId, inv, sendP>>

\* off(id, listener?), fn = "undefined" when no listener is given.
offBody(id, fn) ==
  /\ UNCHANGED <<ovars, lvars, gvars, cvars>>
  /\ IF id \notin DOMAIN ebListeners
       THEN UNCHANGED ebListeners
       ELSE IF fn = "undefined"
         THEN ebListeners' = MapDelete(id)
         ELSE ebListeners' = MapSet(id, StoredAfterOff(ebListeners[id], fn))
  /\ UNCHANGED <<sendId, inv, sendP>>

off(id, fn) ==
  /\ offBody(id, fn)
  /\ UNCHANGED removed

\* send(id, ...args) up to await Promise.all(foundListeners). kinds: what each
\* listener called does.
send(id, kinds) ==
  /\ UNCHANGED <<ovars, lvars, gvars, cvars>>
  /\ sendP # "pending"
  /\ Len(kinds) = Len(FoundListeners(id))
  /\ sendId' = id
  /\ inv' = InvokeAll(FoundListeners(id), kinds)
  /\ sendP' = "pending"
  /\ UNCHANGED <<ebListeners, removed>>

\* The promise a listener returned settles.
listenerSettle(i, r) ==
  /\ UNCHANGED <<ovars, lvars, gvars, cvars>>
  /\ i \in DOMAIN inv
  /\ inv[i].st = "pending"
  /\ inv' = [inv EXCEPT ![i].st = r]
  /\ UNCHANGED <<ebListeners, sendId, sendP, removed>>

\* await Promise.all(foundListeners) settles: rejected once a wrapper has
\* rejected, resolved once all have resolved.
sendSettle ==
  /\ UNCHANGED <<ovars, lvars, gvars, cvars>>
  /\ sendP = "pending"
  /\ \/ /\ \E i \in DOMAIN inv : inv[i].st = "failed"
        /\ sendP' = "rejected"
     \/ /\ \A i \in DOMAIN inv : inv[i].st = "done"
        /\ sendP' = "resolved"
  /\ UNCHANGED <<ebListeners, sendId, inv, removed>>

KindSeqs == UNION {[1..n -> Kinds] : n \in 0..MaxRegs}

NextBus ==
  \/ \E id \in EvIds, fn \in Fns : on(id, fn)
  \/ \E id \in EvIds, fn \in Fns \cup {"undefined"} : off(id, fn)
  \/ \E id \in EvIds, kinds \in KindSeqs : send(id, kinds)
  \/ \E i \in 1..MaxRegs, r \in {"done", "failed"} : listenerSettle(i, r)
  \/ sendSettle

SpecBus == Init /\ [][NextBus]_vars

\* off() with a note taken of the listener it was given.
offNoting(id, fn) ==
  /\ offBody(id, fn)
  /\ removed' = IF fn = "undefined" THEN removed ELSE removed \cup {<<id, fn>>}

NextBusOff ==
  \/ \E id \in EvIds, fn \in Fns : on(id, fn)
  \/ \E id \in EvIds, fn \in Fns \cup {"undefined"} : offNoting(id, fn)
  \/ \E id \in EvIds, kinds \in KindSeqs : send(id, kinds)
  \/ \E i \in 1..MaxRegs, r \in {"done", "failed"} : listenerSettle(i, r)
  \/ sendSettle

SpecBusOff == Init /\ [][NextBusOff]_vars

\* ------------------------------------------------------------------ logger

Undefined == <<>>

Names == {<<"a">>, <<"A">>, <<"b">>}

ChildNames == {<<"x">>}

\* String.prototype.toLowerCase, character by character.
LowerChar(ch) == IF ch = "A" THEN "a" ELSE ch

Lower(n) == [i \in DOMAIN n |-> LowerChar(n[i])]

\* chalk.green / chalk.gray: the text between colour codes when chalk emits
\* colour, the text itself otherwise.
Green(n) == IF colour THEN <<"[32m">> \o n \o <<"[39m">> ELSE n

Gray(n) == IF colour THEN <<"[90m">> \o n \o <<"[39m">> ELSE n

\* ` ${chalk.gray(">")} ${chalk.green(childName.toLowerCase())}`
ChildSuffix(childName) ==
  <<" ">> \o Gray(<<">">>) \o <<" ">> \o Green(Lower(childName))

\* Logger.registeredNames.includes(name)
Includes(reg, n) == \E i \in DOMAIN reg : reg[i] = n

\* Whether this.warn exists when the constructor calls it at its line 65: the
\* four methods are assigned to `this` by the loop at the end of the
\* constructor (the class declares none; the interface merged into it adds
\* types only).
WarnInstalled == FALSE

\* new Logger(name, levelMin, fd, childName) against the registry reg.
Construct(reg, name, childName) ==
  LET n1 == IF name = Undefined THEN Undefined ELSE Green(Lower(name))
      dup == n1 # Undefined /\ Includes(reg, n1)
      withChild(n) == IF childName # Undefined THEN n \o ChildSuffix(childName) ELSE n
  IN IF n1 = Undefined
       THEN [res |-> "ok", name |-> Undefined, reg |-> reg, dup |-> FALSE, warned |-> FALSE]
     ELSE IF ~dup
       THEN [res |-> "ok", name |-> withChild(n1), reg |-> Append(reg, withChild(n1)),
             dup |-> FALSE, warned |-> FALSE]
     ELSE IF ~WarnInstalled
       THEN [res |-> "TypeError", name |-> Undefined, reg |-> reg,
             dup |-> TRUE, warned |-> FALSE]
     ELSE LET n2 == IF childName # Undefined
                      THEN <<"undefined">> \o ChildSuffix(childName) ELSE Undefined
          IN [res |-> "ok", name |-> n2, reg |-> Append(reg, n2),
              dup |-> TRUE, warned |-> TRUE]

Constructed(r) ==
  /\ UNCHANGED <<ovars, lvars, bvars, cvars, colour>>
  /\ registeredNames' = r.reg
  /\ lastRes' = r.res
  /\ lastName' = r.name
  /\ lastDup' = r.dup
  /\ warned' = r.warned

\* new Logger(name) and new Logger(name, levelMin, fd, childName)
newLogger(name, childName) ==
  /\ Len(registeredNames) < MaxLoggers
  /\ Constructed(Construct(registeredNames, name, childName))

\* logger.child(name): new Logger(this.name, this.levelMin, this.fd, name), on
\* the logger that registered the i-th name, or on one without a name (i = 0).
child(i, childName) ==
  /\ Len(registeredNames) < MaxLoggers
  /\ i <= Len(registeredNames)
  /\ Constructed(Construct(registeredNames,
                           IF i = 0 THEN Undefined ELSE registeredNames[i],
                           childName))

NextLogger ==
  \/ \E name \in Names \cup {Undefined}, childName \in ChildNames \cup {Undefined} :
       newLogger(name, childName)
  \/ \E i \in 0..MaxLoggers, childName \in ChildNames : child(i, childName)

InitLoggerClass ==
  /\ InitOrchestrator /\ InitListener /\ InitBus
  /\ LoggerFresh /\ colour \in BOOLEAN
  /\ CodecFresh
  /\ val = [neg |-> FALSE, mag |-> ZeroMag]
  /\ wire = [i \in 1..LongBytes |-> 0]

SpecLogger == InitLoggerClass /\ [][NextLogger]_vars

\* -------------------------------------------------------------- long codec

\* m * k + carry on a magnitude, from byte i down to the most significant one;
\* what carries out of the first byte is dropped. (A magnitude is never empty:
\* the test on m has it evaluated before the next step.)
RECURSIVE MulAdd(_, _, _, _)
MulAdd(m, k, carry, i) ==
  IF i = 0 \/ m = <<>> THEN m
  ELSE LET t == m[i] * k + carry
       IN MulAdd([m EXCEPT ![i] = t % 256], k, t \div 256, i - 1)

\* The magnitude written as the decimal digits ds.
RECURSIVE MagOfDigits(_, _)
MagOfDigits(ds, m) ==
  IF ds = <<>> \/ m = <<>> THEN m
  ELSE MagOfDigits(Tail(ds), MulAdd(m, 10, Head(ds), LongBytes + 1))

BigInt(neg, ds) == [neg |-> neg, mag |-> MagOfDigits(ds, ZeroMag)]

\* const MAX_LONG = 9223372036854775807n;
MAX_LONG == BigInt(FALSE, <<9,2,2,3,3,7,2,0,3,6,8,5,4,7,7,5,8,0,7>>)

\* const MIN_LONG = -9223372036854775808n;
MIN_LONG == BigInt(TRUE, <<9,2,2,3,3,7,2,0,3,6,8,5,4,7,7,5,8,0,8>>)

\* a < b and a <= b on magnitudes: the first byte that differs decides.
MagLess(a, b) ==
  \E i \in DOMAIN a : a[i] < b[i] /\ \A j \in 1..(i - 1) : a[j] = b[j]

MagLeq(a, b) == a = b \/ MagLess(a, b)

\* x <= y and x < y on bigints.
Leq(x, y) ==
  IF x.neg # y.neg THEN x.neg
  ELSE IF x.neg THEN MagLeq(y.mag, x.mag) ELSE MagLeq(x.mag, y.mag)

Less(x, y) == Leq(x, y) /\ x # y

\* value > MIN_LONG && value < MAX_LONG
ValidateStrict(value) == Less(MIN_LONG, value) /\ Less(value, MAX_LONG)

\* .validate((value) => value >= MIN_LONG && value <= MAX_LONG)
Validate(value) == Leq(MIN_LONG, value) /\ Leq(value, MAX_LONG)

\* The two's complement of 8 bytes: every bit flipped, plus one, modulo 2^64.
TwosComplement(b) == MulAdd([i \in DOMAIN b |-> 255 - b[i]], 1, 1, Len(b))

\* view.setBigInt64(0, value): the value modulo 2^64, big-endian.
SetBigInt64(value) ==
  LET low == SubSeq(value.mag, 2, LongBytes + 1)
  IN IF value.neg THEN TwosComplement(low) ELSE low

\* view.getBigInt64(offset) on 8 bytes, big-endian, the first bit the sign.
GetBigInt64(b) ==
  IF b[1] >= 128 THEN [neg |-> TRUE, mag |-> <<0>> \o TwosComplement(b)]
  ELSE [neg |-> FALSE, mag |-> <<0>> \o b]

\* new DataView(buffer) throws TypeError unless buffer is an ArrayBuffer (or a
\* SharedArrayBuffer); a typed array is neither.
DataViewAccepts(kind) == kind \in {"ArrayBuffer", "SharedArrayBuffer"}

\* encode: const bytes = new Uint8Array(8); const view = new DataView(bytes);
\* view.setBigInt64(0, value); return bytes;
Encode(value) ==
  LET bytes == [kind |-> "Uint8Array", data |-> [i \in 1..LongBytes |-> 0]]
  IN IF ~DataViewAccepts(bytes.kind)
       THEN [res |-> "TypeError", bytes |-> <<>>]
       ELSE [res |-> "ok", bytes |-> SetBigInt64(value)]

\* consumer.readWithView(8) on a consumer loaded with the bytes w: the view of
\* its first 8 bytes.
ReadWithView(w, n) == SubSeq(w, 1, n)

\* decode: const [offset, view] = await consumer.readWithView(8);
\* return view.getBigInt64(offset);
Decode(w) == GetBigInt64(ReadWithView(w, LongBytes))

\* The values and the byte strings the codec is applied to: around zero and
\* around the ends of the 64-bit range. There is no negative zero.
LongInputs ==
  {v \in [neg : BOOLEAN,
          mag : {<<over, top>> \o [i \in 1..(LongBytes - 2) |-> mid] \o <<low>> :
                   over \in {0, 1}, top \in {0, 127, 128, 255},
                   mid \in {0, 255}, low \in {0, 1, 254, 255}}] :
     ~(v.neg /\ v.mag = ZeroMag)}

WireInputs ==
  {<<top>> \o [i \in 1..(LongBytes - 2) |-> mid] \o <<low>> :
     top \in {0, 127, 128, 255}, mid \in {0, 255}, low \in {0, 255}}

InitLong ==
  /\ InitOrchestrator /\ InitListener /\ InitBus
  /\ LoggerFresh /\ colour = FALSE
  /\ CodecFresh
  /\ val \in LongInputs
  /\ wire \in WireInputs

\* long.validate(val)
validate ==
  /\ UNCHANGED <<ovars, lvars, bvars, gvars>>
  /\ valid = "unset"
  /\ valid' = IF Validate(val) THEN "true" ELSE "false"
  /\ UNCHANGED <<val, wire, encRes, encBytes, decRes, decVal>>

\* long.encode(val), called on a value that passed validate only.
encode ==
  /\ UNCHANGED <<ovars, lvars, bvars, gvars>>
  /\ valid = "true"
  /\ encRes = "unset"
  /\ encRes' = Encode(val).res
  /\ encBytes' = Encode(val).bytes
  /\ UNCHANGED <<val, wire, valid, decRes, decVal>>

\* long.decode(consumer), the consumer loaded with the bytes of wire.
decode ==
  /\ UNCHANGED <<ovars, lvars, bvars, gvars>>
  /\ decRes = "unset"
  /\ decRes' = "ok"
  /\ decVal' = Decode(wire)
  /\ UNCHANGED <<val, wire, valid, encRes, encBytes>>

NextLong ==
  \/ validate
  \/ encode
  \/ decode

SpecLong == InitLong /\ [][NextLong]_vars

\* ------------------------------------------------------------- properties

CloseCalledOnAll(a) == \A l \in Listeners : closeP[a][l] # "none"

\* C1: when a listen() has failed during boot and bootstrap() has resumed, it
\* is awaiting stop(), which has called close() on all three listeners; the
\* orchestrator is never Running once a listen() failed; and a process ended by
\* stop() had close() called on all three listeners first.
C1_BootFailureStops ==
  /\ (\E l \in Listeners : listenP[l] = "fail") => isBooting
  /\ (bpc \in {"returned", "awaitStop"} /\ \E l \in Listeners : listenP[l] = "fail")
       => (bpc = "awaitStop" /\ spc["boot"] # "idle" /\ CloseCalledOnAll("boot"))
  /\ (exited /\ exitBy \in Acts) => CloseCalledOnAll(exitBy)

\* A boot failure with one listener up: the process ended through the stop()
\* that bootstrap() invoked, never Running.
C1_Witness ==
  /\ exited /\ exitBy = "boot"
  /\ isBooting
  /\ \E l \in Listeners : listenP[l] = "fail"
  /\ \E l \in Listeners : listenP[l] = "ok"
  /\ CloseCalledOnAll("boot")

\* C2: the orchestrator is Running only when every one of the three listen()
\* has resolved, and when all three resolved bootstrap() has not invoked stop().
C2_RunningAfterAllListen ==
  /\ ~isBooting => \A l \in Listeners : listenP[l] = "ok"
  /\ (\A l \in Listeners : listenP[l] = "ok") => spc["boot"] = "idle"
  /\ (bpc = "returned" /\ \A l \in Listeners : listenP[l] = "ok") => ~isBooting

C2_Witness ==
  /\ ~isBooting /\ bpc = "returned"
  /\ \A l \in Listeners : listenP[l] = "ok"
  /\ spc["boot"] = "idle"

\* C3: a process ended by stop() has exit code 0 exactly when all three close()
\* of that stop() and the release of the sink succeeded, and 1 otherwise.
C3_StopExitCode ==
  (exited /\ exitBy \in Acts) =>
    /\ exitCode \in {0, 1}
    /\ exitCode = 0 <=> ( /\ \A l \in Listeners : closeP[exitBy][l] = "ok"
                          /\ flushed = "ok" )

\* All three close() succeeded and the release of the sink threw: exit code 1.
C3_Witness ==
  /\ exited /\ exitBy \in Acts
  /\ \A l \in Listeners : closeP[exitBy][l] = "ok"
  /\ flushed = "fail"
  /\ exitCode = 1

\* C4: once an accept loop has raised after Running was reached, the error has
\* been logged, the orchestrator is Running and the process was not ended by it.
C4_RuntimeFailureContained ==
  acceptErrRunning # {} =>
    /\ "runtimeError" \in logged
    /\ ~isBooting
    /\ exitBy # "runtime"

\* C5: every accepted connection whose session is not closed is in the active
\* set, and after a close() that returned without error no accepted connection
\* has its socket open.
C5_ActiveSetHoldsSessions ==
  /\ \A c \in Conn : (pc[c] \in {"check", "parsing"} /\ sock[c] = "open")
                        => c \in Range(connections)
  /\ (closeRes = "ok" /\ lsn = "closed") => \A c \in Conn : sock[c] # "open"

Last(q) == q[Len(q)]

\* C6: in the sweep of close(), a connection that raised BadResource never ends
\* the sweep, and a connection that raised another error ends it: close() threw
\* that error. close() throws from the sweep for no other reason.
C6_SweepErrors ==
  /\ \A i \in DOMAIN sweepLog :
       /\ sweepLog[i][2] = "BadResource" => (closeRes = "ok" \/ i < Len(sweepLog))
       /\ sweepLog[i][2] = "other"
            => (closeRes = "threw" /\ closeErr = "conn" /\ i = Len(sweepLog))
  /\ (closeRes = "threw" /\ closeErr = "conn")
       => (sweepLog # <<>> /\ Last(sweepLog)[2] = "other")

\* A sweep that passed over a connection closed by its peer and then threw the
\* error of a faulty one.
C6_Witness ==
  /\ closeRes = "threw" /\ closeErr = "conn"
  /\ \E i \in DOMAIN sweepLog : sweepLog[i][2] = "BadResource"
  /\ Last(sweepLog)[2] = "other"

\* C7: when session A has failed on a header parse, a session B that is in its
\* loop and an accept loop that is running have not been ended by it (the
\* process goes on).
C7_SessionIsolation ==
  \A a \in Conn : pc[a] = "failed" =>
    /\ \A b \in Conn \ {a} : pc[b] \in {"check", "parsing"} => crashed # "session"
    /\ loop = "running" => crashed # "session"

\* C8: a session enters a header parse only from a state in which open is true
\* and its client is not closed.
C8_FlagsCheckedBeforeParse ==
  [][\A c \in Conn : (pc[c] # "parsing" /\ pc'[c] = "parsing")
                        => (open /\ ~closed[c])]_vars

\* A session whose parse returned no header and whose loop then ended because
\* the listener was no longer open.
C8_Witness ==
  \E c \in Conn : pc[c] = "exited" /\ headerData[c] = "null" /\ ~open /\ ~closed[c]

\* C9: while a session parses header N+1 the handler has been invoked for each
\* of the N headers parsed before.
C9_HandlerBeforeNextParse ==
  \A c \in Conn : pc[c] = "parsing" => handled[c] >= parsed[c]

\* C10: no connection is accepted, and so no session loop started, while the
\* listener is not open, which is the case from close() until a later listen().
C10_NoAcceptAfterClose ==
  [][\A c \in Conn : (pc[c] = "none" /\ pc'[c] # "none") => open]_vars

\* close() has returned on a listener that had accepted a connection, and a
\* further connection is still to arrive.
C10_Witness ==
  /\ lsn = "closed" /\ ~open /\ closeRes = "ok"
  /\ \E c \in Conn : pc[c] # "none"
  /\ \E c \in Conn : pc[c] = "none"

\* C11 (as amended): whenever stop() has started a close() it has started all
\* three; the sink is flushed or released only by a stop() whose three close()
\* have all resolved; and a process that stop() ended after its three close()
\* succeeded has its sink released.
C11_StopOrder ==
  /\ \A a \in Acts : (\E l \in Listeners : closeP[a][l] # "none")
                        => \A l \in Listeners : closeP[a][l] # "none"
  /\ (sink = "destroyed" \/ flushed # "none")
       => /\ exitBy \in Acts
          /\ \A l \in Listeners : closeP[exitBy][l] = "ok"
  /\ (exited /\ exitBy \in Acts /\ \A l \in Listeners : closeP[exitBy][l] = "ok")
       => sink = "destroyed"

\* A clean shutdown: three close() resolved, the sink flushed and released, the
\* process ended.
C11_Witness ==
  /\ exited /\ exitBy = "ext"
  /\ \A l \in Listeners : closeP["ext"][l] = "ok"
  /\ sink = "destroyed" /\ flushed = "ok"

\* C11 as stated: a process ended by stop() has its sink released.
C11_ExitAfterSinkReleased ==
  (exited /\ exitBy \in Acts) => sink = "destroyed"

\* C17: a process ended by the stop() that bootstrap() invoked after a boot
\* failure has exit code 0 when its three close() and the release of the sink
\* succeeded, and 1 otherwise, whichever listen() failed.
C17_BootFailureExitCode ==
  (exited /\ exitBy = "boot") =>
    /\ \E l \in Listeners : listenP[l] = "fail"
    /\ ( (\A l \in Listeners : closeP["boot"][l] = "ok") /\ flushed = "ok" )
         => exitCode = 0
    /\ ( (\E l \in Listeners : closeP["boot"][l] = "fail") \/ flushed = "fail" )
         => exitCode = 1

\* Every listen() failed at boot, the shutdown went well: exit code 0.
C17_Witness ==
  /\ exited /\ exitBy = "boot"
  /\ \A l \in Listeners : listenP[l] = "fail"
  /\ \A l \in Listeners : closeP["boot"][l] = "ok"
  /\ flushed = "ok"
  /\ exitCode = 0

\* C18: a close() that throws the error of a connection has set open to false
\* and left no listener listening, and has not touched the socket of any
\* connection that comes after the failing one in the active set.
C18_SweepStopsAtError ==
  [][ ( /\ closeRes' = "threw" /\ closeErr' = "conn"
        /\ closed' = closed
        /\ ~(lsn # "listening" /\ lsn' = "listening") )
      => /\ ~open'
         /\ lsn' # "listening"
         /\ \A i \in DOMAIN sweepLog' :
              sweepLog'[i][2] = "other"
                => \A j \in (i + 1)..Len(connections) :
                     sock'[connections[j]] = sock[connections[j]] ]_vars

\* close() threw on the first connection of the set: the listener socket is
\* closed, open is false and the last connection of the set is still open.
C18_Witness ==
  /\ closeRes = "threw" /\ closeErr = "conn"
  /\ lsn = "closed" /\ ~open
  /\ Len(sweepLog) < Len(connections)
  /\ sweepLog[Len(sweepLog)][2] = "other"
  /\ sock[connections[Len(connections)]] = "open"

\* C19: a session that was in its loop when a close() returned enters no
\* header parse afterwards.
C19_NoParseAfterClose ==
  [][\A c \in stale : ~(pc[c] # "parsing" /\ pc'[c] = "parsing")]_vars

\* C12: a send(id) invokes no listener that was given to off(id, listener) and
\* not registered again since, and invokes every other listener registered for
\* id.
C12_OffRemovesListener ==
  [][ (sendP # "pending" /\ sendP' = "pending")
      => /\ \A i \in DOMAIN inv' : <<sendId', inv'[i].fn>> \notin removed
         /\ \A k \in DOMAIN GetOrEmpty(sendId') :
              <<sendId', GetOrEmpty(sendId')[k]>> \notin removed
                => \E i \in DOMAIN inv' : inv'[i].fn = GetOrEmpty(sendId')[k] ]_vars

\* C13: send(id) invokes the listeners registered for id at that moment, each
\* registration once and in order, and nothing else; and its promise has
\* resolved only when every listener invoked has completed, whether it returned
\* a value or a promise.
C13_SendInvokesRegistered ==
  /\ [][ (sendP # "pending" /\ sendP' = "pending")
          => /\ Len(inv') = Len(GetOrEmpty(sendId'))
             /\ \A i \in DOMAIN inv' : inv'[i].fn = GetOrEmpty(sendId')[i] ]_vars
  /\ [](sendP = "resolved" => \A i \in DOMAIN inv : inv[i].st = "done")

\* A send() that resolved after the one listener registered for its id, which
\* returned a promise, had completed, while another function registered for
\* the other id was not called.
C13_Witness ==
  /\ sendP = "resolved"
  /\ Len(inv) = 1
  /\ inv[1].kind = "promise"
  /\ \E id \in DOMAIN ebListeners :
       id # sendId /\ ebListeners[id] # <<>> /\ ebListeners[id][1] # inv[1].fn

\* C20: when a listener called by send(id) threw or rejected, the promise of
\* send never resolves, it rejects only for such a failure, and every listener
\* registered for id after the failing one was called all the same.
C20_FailureDoesNotStopOthers ==
  /\ [][ (sendP # "pending" /\ sendP' = "pending")
          => \A i \in DOMAIN inv' : inv'[i].st = "failed"
               => \A j \in (i + 1)..Len(GetOrEmpty(sendId')) :
                    j \in DOMAIN inv' /\ inv'[j].fn = GetOrEmpty(sendId')[j] ]_vars
  /\ []((\E i \in DOMAIN inv : inv[i].st = "failed") => sendP # "resolved")
  /\ [](sendP = "rejected" => \E i \in DOMAIN inv : inv[i].st = "failed")

\* The first listener threw, the second was called and completed, and the
\* promise of send rejected.
C20_Witness ==
  /\ sendP = "rejected"
  /\ Len(inv) = 2
  /\ inv[1].kind = "throw" /\ inv[1].st = "failed"
  /\ inv[2].kind = "promise" /\ inv[2].st = "done"

\* C16: a construction with a name that is registered already ends without
\* error, having warned, with a logger that has no name; and the registry
\* never holds a name twice.
C16_DuplicateNameHandled ==
  /\ lastDup => (lastRes = "ok" /\ warned /\ lastName = Undefined)
  /\ \A i, j \in DOMAIN registeredNames :
       i # j => registeredNames[i] # registeredNames[j]

\* C14: for a value that passed validate, encode returns 8 bytes, and decode on
\* a consumer loaded with exactly those bytes returns that value.
C14_LongRoundTrip ==
  /\ (valid = "true" /\ encRes # "unset")
       => (encRes = "ok" /\ Len(encBytes) = LongBytes)
  /\ (valid = "true" /\ encRes = "ok" /\ decRes = "ok" /\ wire = encBytes)
       => decVal = val

\* A bigint is in the 64-bit signed range when its magnitude is below 2^63, or
\* is 2^63 and the value negative.
InRange64(v) ==
  /\ v.mag[1] = 0
  /\ \/ v.mag[2] < 128
     \/ /\ v.neg
        /\ v.mag[2] = 128
        /\ \A i \in 3..(LongBytes + 1) : v.mag[i] = 0

\* The two ends of the 64-bit signed range and their outer neighbours.
Min64 == BigInt(TRUE, <<9,2,2,3,3,7,2,0,3,6,8,5,4,7,7,5,8,0,8>>)

Max64 == BigInt(FALSE, <<9,2,2,3,3,7,2,0,3,6,8,5,4,7,7,5,8,0,7>>)

AboveMax64 == BigInt(FALSE, <<9,2,2,3,3,7,2,0,3,6,8,5,4,7,7,5,8,0,8>>)

BelowMin64 == BigInt(TRUE, <<9,2,2,3,3,7,2,0,3,6,8,5,4,7,7,5,8,0,9>>)

\* C15: validate returns true exactly for the values of the 64-bit signed
\* range; it accepts -9223372036854775808 and 9223372036854775807 and rejects
\* 9223372036854775808 and -9223372036854775809.
C15_ValidateRange ==
  /\ valid # "unset" => (valid = "true" <=> InRange64(val))
  /\ Validate(Min64) /\ InRange64(Min64)
  /\ Validate(Max64) /\ InRange64(Max64)
  /\ ~Validate(AboveMax64) /\ ~InRange64(AboveMax64)
  /\ ~Validate(BelowMin64) /\ ~InRange64(BelowMin64)

\* validate has accepted the largest value of the range.
C15_Witness ==
  /\ valid = "true"
  /\ val = Max64

====
